---- MODULE Spec2Model ----
(***************************************************************************)
(* The ticket stores of the exercises.                                     *)
(*                                                                         *)
(* Spec, SpecPatchRace: the ticket store of exercises/08_futures/08_outro, *)
(* a BTreeMap from TicketId to Ticket behind an                            *)
(* Arc<parking_lot::RwLock<..>>, shared by the clones of one TicketStore   *)
(* handle.  A caller is a thread or task that holds a clone.  A call takes *)
(* the lock, works on the map and drops the guard before it returns; a     *)
(* caller that has to wait for the lock is a caller whose lock-taking      *)
(* action is not enabled yet.                                              *)
(*                                                                         *)
(* SpecActor: the ticket store servers of exercises/07_threads (07_ack,    *)
(* 08_client, 09_bounded): one server thread owns the store and is reached *)
(* through an mpsc channel of commands, each with a channel for its reply. *)
(*                                                                         *)
(* SpecParse: the fallible conversions of 08_outro's ticket.rs, applied to *)
(* one raw string.                                                         *)
(*                                                                         *)
(* SpecHttp: the axum handlers of 08_outro's main.rs on the shared store.  *)
(*                                                                         *)
(* SpecSum: the two-thread sum of exercises/07_threads/02_static.          *)
(*                                                                         *)
(* SpecSaturating: the SaturatingU16 of exercises/04_traits/14_outro,      *)
(* one left operand and one right operand at a time.                       *)
(*                                                                         *)
(* Every specification leaves the variables of the others as Init sets     *)
(* them.                                                                   *)
(***************************************************************************)
EXTENDS Integers, FiniteSets, Sequences, TLC

VARIABLES
    tickets,     \* the BTreeMap<TicketId, Ticket> inside the RwLock
    writers,     \* the callers holding the write guard (at most one)
    readers,     \* the callers holding a read guard
    pc,          \* per caller: where it is inside a TicketStore call
    arg,         \* per caller: the arguments of the call it is running
    ret,         \* per caller: the return value of its last call
    calls,       \* the number of calls started so far
    lastInsert,  \* history, per id: Some(ticket of the last insert), or None
                 \*   once patch has been called on the id after that insert
    committed    \* history: the map as it was when a write guard was last
                 \*   dropped

storeVars == <<tickets, writers, readers, pc, arg, ret, calls, lastInsert,
               committed>>

(* The ticket store server of exercises/07_threads *)
VARIABLES
    variant,     \* which exercise's library runs: 07_ack, 08_client, 09_bounded
    capacity,    \* the argument of launch(capacity) (09_bounded), else None
    store,       \* the TicketStore the server thread owns
    queue,       \* the commands in the command channel, oldest first
    handles,     \* the callers that own a Sender<Command> (a client handle)
    worker,      \* the server thread: running, stopped, or how it panicked
    at,          \* per caller: idle, waiting for its reply, or panicked
    sentCmd,     \* per caller: the command it sent last
    got,         \* per caller: what its last call returned
    replies,     \* per reply channel whose Receiver is alive: the replies in
                 \*   it, oldest first
    sent,        \* the number of sends on the command channel so far
    accepted,    \* history: the commands the command channel accepted, in the
                 \*   order they were enqueued
    handled,     \* history: the numbers of the commands the server handled,
                 \*   in the order it handled them
    produced     \* history, per command number: the reply the server made

actorVars == <<variant, capacity, store, queue, handles, worker, at, sentCmd,
               got, replies, sent, accepted, handled, produced>>

(* The conversions of 08_outro's ticket.rs *)
VARIABLES
    target,      \* the type the raw string is converted to
    value,       \* the raw string, a sequence of characters
    converted    \* the result of try_from(&str) and of try_from(String) on it

parseVars == <<target, value, converted>>

(* The handlers of 08_outro's main.rs (they work on tickets) *)
VARIABLES
    request,     \* the request handled last: its method and the id in its body
    response     \* the response to it

httpVars == <<request, response>>

(* sum of 07_threads/02_static *)
VARIABLES
    slice,       \* the argument of sum
    build,       \* how the crate was built: debug (overflow checks on) or
                 \*   release (overflow checks off)
    thread,      \* per spawned thread: the elements it has still to add, its
                 \*   running sum, and whether it runs, is done or panicked
    main,        \* the calling thread: where it is in sum, what the joins
                 \*   gave it, and what sum returned
    finished     \* history: the spawned threads in the order they ended

sumVars == <<slice, build, thread, main, finished>>

(* SaturatingU16 of 04_traits/14_outro *)
VARIABLES
    lhs,         \* a SaturatingU16, the left operand
    rhs,         \* a u16, the right operand before it is converted
    out          \* the operation applied last and its result

saturatingVars == <<lhs, rhs, out>>

vars == <<storeVars, actorVars, parseVars, httpVars, sumVars, saturatingVars>>

\* What the calls on the shared store leave alone.
outsideStore == <<actorVars, parseVars, httpVars, sumVars, saturatingVars>>

\* What the server and its callers leave alone.
outsideActor == <<storeVars, parseVars, httpVars, sumVars, saturatingVars>>

\* What the conversions leave alone.
outsideParse == <<storeVars, actorVars, httpVars, sumVars, saturatingVars>>

\* What the handlers leave alone.
outsideHttp == <<writers, readers, pc, arg, ret, calls, lastInsert, committed,
                 actorVars, parseVars, sumVars, saturatingVars>>

\* What sum and its threads leave alone.
outsideSum == <<storeVars, actorVars, parseVars, httpVars, saturatingVars>>

\* What the operations on a SaturatingU16 leave alone.
outsideSaturating == <<storeVars, actorVars, parseVars, httpVars, sumVars>>

----------------------------------------------------------------------------
(* Bounds and value domains *)

\* The calls a behaviour may start, over all callers.
MaxCalls == 3

Callers == {"c1", "c2"}

TicketId == {1, 42}
TicketTitle == {"this is a title", "Updated Title"}
TicketDescription == {"this is a description", "Original Description"}
TicketStatus == {"ToDo", "InProgress", "Done"}

----------------------------------------------------------------------------
(* Values *)

None == [tag |-> "None"]
Some(v) == [tag |-> "Some", v |-> v]
Option(S) == {None} \cup {Some(v) : v \in S}

Ticket == [id : TicketId, title : TicketTitle,
           description : TicketDescription, status : TicketStatus]

TicketPatch == [id : TicketId, title : Option(TicketTitle),
                description : Option(TicketDescription),
                status : Option(TicketStatus)]

TicketUpdateError(original, patch) ==
    [tag |-> "TicketUpdateError", original_id |-> original, patch_id |-> patch]

NotFound(id) == [tag |-> "NotFound", id |-> id]
Mismatch(e) == [tag |-> "Mismatch", source |-> e]
Ok == [tag |-> "Ok"]
Err(e) == [tag |-> "Err", e |-> e]
Unit == [tag |-> "Unit"]
NoRet == [tag |-> "NoRet"]
NoArg == [tag |-> "NoArg"]

----------------------------------------------------------------------------
(* BTreeMap *)

EmptyMap == [k \in {} |-> None]

\* Faulty variant of MapGet: the lookup never finds the key.
MapGetNone(m, k) == None

MapGet(m, k) == IF k \in DOMAIN m THEN Some(m[k]) ELSE None

\* Faulty variant of MapInsert: an existing entry is kept (entry().or_insert).
MapInsertIfAbsent(m, k, v) ==
    [x \in (DOMAIN m) \cup {k} |-> IF x \in DOMAIN m THEN m[x] ELSE v]

\* Faulty variant of MapInsert: the other entries are lost.
MapInsertAlone(m, k, v) == [x \in {k} |-> v]

\* Faulty variant of MapInsert: the entry goes under the next free number
\* and not under the key given.
MapInsertAtLen(m, k, v) ==
    [x \in (DOMAIN m) \cup {Cardinality(DOMAIN m) + 1} |->
        IF x = Cardinality(DOMAIN m) + 1 THEN v ELSE m[x]]

MapInsert(m, k, v) == [x \in (DOMAIN m) \cup {k} |-> IF x = k THEN v ELSE m[x]]

----------------------------------------------------------------------------
(* parking_lot::RwLock *)

\* Faulty variant of CanRead: a read guard is granted beside a write guard.
CanReadBesideWriter(c) == c \notin readers

CanRead(c) == writers = {} /\ c \notin readers

\* Faulty variant of CanWrite: a write guard is granted beside read guards.
CanWriteBesideReaders(c) == writers = {}

CanWrite(c) == writers = {} /\ readers = {}

----------------------------------------------------------------------------
(* Ticket::update *)

\* Faulty variant of IdsMatch: the id check is missing.
IdsMatchUnchecked(self, patch) == TRUE

IdsMatch(self, patch) == self.id = patch.id

SetTitle(self, title) ==
    IF title.tag = "Some" THEN [self EXCEPT !.title = title.v] ELSE self

\* Faulty variant of SetDescription: an absent description resets the field.
SetDescriptionAlways(self, description) ==
    [self EXCEPT !.description =
        IF description.tag = "Some" THEN description.v
        ELSE "this is a description"]

SetDescription(self, description) ==
    IF description.tag = "Some"
    THEN [self EXCEPT !.description = description.v] ELSE self

\* Faulty variant of SetStatus: the status branch is missing.
SetStatusSkipped(self, status) == self

SetStatus(self, status) ==
    IF status.tag = "Some" THEN [self EXCEPT !.status = status.v] ELSE self

----------------------------------------------------------------------------
(* TicketStore *)

(* TicketStore::new(), and no call made yet. *)
NewStore ==
    /\ tickets = EmptyMap
    /\ writers = {}
    /\ readers = {}
    /\ pc = [c \in Callers |-> "idle"]
    /\ arg = [c \in Callers |-> NoArg]
    /\ ret = [c \in Callers |-> NoRet]
    /\ calls = 0
    /\ lastInsert = EmptyMap
    /\ committed = EmptyMap

(* No server has been launched. *)
NoActor ==
    /\ variant = "none"
    /\ capacity = None
    /\ store = NoArg
    /\ queue = <<>>
    /\ handles = {}
    /\ worker = "none"
    /\ at = [c \in Callers |-> "idle"]
    /\ sentCmd = [c \in Callers |-> NoArg]
    /\ got = [c \in Callers |-> NoRet]
    /\ replies = EmptyMap
    /\ sent = 0
    /\ accepted = <<>>
    /\ handled = <<>>
    /\ produced = EmptyMap

(* No conversion is being looked at. *)
NoParse ==
    /\ target = "none"
    /\ value = <<>>
    /\ converted = EmptyMap

(* No request has been handled. *)
NoHttp ==
    /\ request = NoArg
    /\ response = NoRet

\* sum has not been called.
NoSum ==
    /\ slice = <<>>
    /\ build = "debug"
    /\ thread = <<>>
    /\ main = NoRet
    /\ finished = <<>>

\* No SaturatingU16 has been made.
NoSaturating ==
    /\ lhs = NoArg
    /\ rhs = 0
    /\ out = NoRet

Init ==
    /\ NewStore
    /\ NoActor
    /\ NoParse
    /\ NoHttp
    /\ NoSum
    /\ NoSaturating

(* An idle caller may make its next call on the store. *)
CanCall(c) == pc[c] = "idle" /\ calls < MaxCalls

(* insert: self.tickets.write().insert(ticket.id, ticket) *)
InsertWrite(c, ticket) ==
    /\ CanCall(c)
    /\ CanWrite(c)
    /\ calls' = calls + 1
    /\ writers' = writers \cup {c}
    /\ tickets' = MapInsert(tickets, ticket.id, ticket)
    /\ lastInsert' = (ticket.id :> Some(ticket)) @@ lastInsert
    /\ pc' = [pc EXCEPT ![c] = "insert"]
    /\ arg' = [arg EXCEPT ![c] = ticket]
    /\ ret' = [ret EXCEPT ![c] = NoRet]
    /\ UNCHANGED <<readers, committed>>
    /\ UNCHANGED outsideStore

(* The write guard, a temporary of the statement, is dropped and insert
   returns (). *)
InsertReturn(c) ==
    /\ pc[c] = "insert"
    /\ writers' = writers \ {c}
    /\ committed' = tickets
    /\ pc' = [pc EXCEPT ![c] = "idle"]
    /\ arg' = [arg EXCEPT ![c] = NoArg]
    /\ ret' = [ret EXCEPT ![c] = Unit]
    /\ UNCHANGED <<tickets, readers, calls, lastInsert>>
    /\ UNCHANGED outsideStore

\* Faulty variant of GetRead: the entry is taken out of the map (remove for get).
GetReadRemoving(c, id) ==
    /\ CanCall(c)
    /\ CanRead(c)
    /\ calls' = calls + 1
    /\ readers' = readers \cup {c}
    /\ pc' = [pc EXCEPT ![c] = "get_return"]
    /\ arg' = [arg EXCEPT ![c] = id]
    /\ ret' = [ret EXCEPT ![c] = MapGet(tickets, id)]
    /\ tickets' = [x \in (DOMAIN tickets) \ {id} |-> tickets[x]]
    /\ UNCHANGED <<writers, lastInsert, committed>>
    /\ UNCHANGED outsideStore

(* get: self.tickets.read().get(&id).cloned() *)
GetRead(c, id) ==
    /\ CanCall(c)
    /\ CanRead(c)
    /\ calls' = calls + 1
    /\ readers' = readers \cup {c}
    /\ pc' = [pc EXCEPT ![c] = "get_return"]
    /\ arg' = [arg EXCEPT ![c] = id]
    /\ ret' = [ret EXCEPT ![c] = MapGet(tickets, id)]
    /\ UNCHANGED <<tickets, writers, lastInsert, committed>>
    /\ UNCHANGED outsideStore

(* The read guard, a temporary of the statement, is dropped and get returns
   the clone. *)
GetReturn(c) ==
    /\ pc[c] = "get_return"
    /\ readers' = readers \ {c}
    /\ pc' = [pc EXCEPT ![c] = "idle"]
    /\ arg' = [arg EXCEPT ![c] = NoArg]
    /\ UNCHANGED <<tickets, writers, ret, calls, lastInsert, committed>>
    /\ UNCHANGED outsideStore

\* Faulty variant of PatchOutcome: the else branch for an absent id is missing.
PatchOutcomeNoElse(m, id, p) ==
    IF id \in DOMAIN m /\ ~(m[id].id = p.id) THEN "Mismatch" ELSE "Update"

(* patch: which way the call goes: get_mut(&id) finds nothing, or
   Ticket::update rejects the patch, or the update goes ahead. *)
PatchOutcome(m, id, p) ==
    IF id \notin DOMAIN m THEN "NotFound"
    ELSE IF ~IdsMatch(m[id], p) THEN "Mismatch"
    ELSE "Update"

\* Faulty variant of PatchLookup: the ticket is taken out of the map to be
\* updated, and a refused patch does not put it back.
PatchLookupTaking(c, id, p) ==
    /\ CanCall(c)
    /\ CanWrite(c)
    /\ calls' = calls + 1
    /\ writers' = writers \cup {c}
    /\ lastInsert' = IF id \in DOMAIN lastInsert
                     THEN [lastInsert EXCEPT ![id] = None]
                     ELSE lastInsert
    /\ CASE PatchOutcome(tickets, id, p) = "NotFound" ->
              /\ pc' = [pc EXCEPT ![c] = "patch_return"]
              /\ arg' = [arg EXCEPT ![c] = [id |-> id, patch_id |-> p.id]]
              /\ ret' = [ret EXCEPT ![c] = Err(NotFound(id))]
         [] PatchOutcome(tickets, id, p) = "Mismatch" ->
              /\ pc' = [pc EXCEPT ![c] = "patch_return"]
              /\ arg' = [arg EXCEPT ![c] = [id |-> id, patch_id |-> p.id]]
              /\ ret' = [ret EXCEPT ![c] =
                           Err(Mismatch(TicketUpdateError(tickets[id].id, p.id)))]
         [] PatchOutcome(tickets, id, p) = "Update" ->
              /\ pc' = [pc EXCEPT ![c] = "update_title"]
              /\ arg' = [arg EXCEPT ![c] =
                           [id |-> id, patch_id |-> p.id, title |-> p.title,
                            description |-> p.description,
                            status |-> p.status]]
              /\ ret' = [ret EXCEPT ![c] = NoRet]
    /\ tickets' = IF PatchOutcome(tickets, id, p) = "Mismatch"
                  THEN [x \in DOMAIN tickets \ {id} |-> tickets[x]]
                  ELSE tickets
    /\ UNCHANGED <<readers, committed>>
    /\ UNCHANGED outsideStore

(* patch: self.tickets.write(), tickets.get_mut(&id), and the id check of
   existing_ticket.update(p).  On the way into update the caller still owns
   every field of the patch; each if-let below moves one field out. *)
PatchLookup(c, id, p) ==
    /\ CanCall(c)
    /\ CanWrite(c)
    /\ calls' = calls + 1
    /\ writers' = writers \cup {c}
    /\ lastInsert' = IF id \in DOMAIN lastInsert
                     THEN [lastInsert EXCEPT ![id] = None]
                     ELSE lastInsert
    /\ CASE PatchOutcome(tickets, id, p) = "NotFound" ->
              /\ pc' = [pc EXCEPT ![c] = "patch_return"]
              /\ arg' = [arg EXCEPT ![c] = [id |-> id, patch_id |-> p.id]]
              /\ ret' = [ret EXCEPT ![c] = Err(NotFound(id))]
         [] PatchOutcome(tickets, id, p) = "Mismatch" ->
              /\ pc' = [pc EXCEPT ![c] = "patch_return"]
              /\ arg' = [arg EXCEPT ![c] = [id |-> id, patch_id |-> p.id]]
              /\ ret' = [ret EXCEPT ![c] =
                           Err(Mismatch(TicketUpdateError(tickets[id].id, p.id)))]
         [] PatchOutcome(tickets, id, p) = "Update" ->
              /\ pc' = [pc EXCEPT ![c] = "update_title"]
              /\ arg' = [arg EXCEPT ![c] =
                           [id |-> id, patch_id |-> p.id, title |-> p.title,
                            description |-> p.description,
                            status |-> p.status]]
              /\ ret' = [ret EXCEPT ![c] = NoRet]
    /\ UNCHANGED <<tickets, readers, committed>>
    /\ UNCHANGED outsideStore

(* update: if let Some(title) = patch.title *)
UpdateTitle(c) ==
    /\ pc[c] = "update_title"
    /\ tickets' = [tickets EXCEPT ![arg[c].id] = SetTitle(@, arg[c].title)]
    /\ pc' = [pc EXCEPT ![c] = "update_description"]
    /\ arg' = [arg EXCEPT ![c] =
                 [id |-> arg[c].id, patch_id |-> arg[c].patch_id,
                  description |-> arg[c].description,
                  status |-> arg[c].status]]
    /\ UNCHANGED <<writers, readers, ret, calls, lastInsert, committed>>
    /\ UNCHANGED outsideStore

(* update: if let Some(description) = patch.description *)
UpdateDescription(c) ==
    /\ pc[c] = "update_description"
    /\ tickets' = [tickets EXCEPT ![arg[c].id] =
                     SetDescription(@, arg[c].description)]
    /\ pc' = [pc EXCEPT ![c] = "update_status"]
    /\ arg' = [arg EXCEPT ![c] =
                 [id |-> arg[c].id, patch_id |-> arg[c].patch_id,
                  status |-> arg[c].status]]
    /\ UNCHANGED <<writers, readers, ret, calls, lastInsert, committed>>
    /\ UNCHANGED outsideStore

(* update: if let Some(status) = patch.status, and Ok(()) *)
UpdateStatus(c) ==
    /\ pc[c] = "update_status"
    /\ tickets' = [tickets EXCEPT ![arg[c].id] = SetStatus(@, arg[c].status)]
    /\ pc' = [pc EXCEPT ![c] = "patch_return"]
    /\ arg' = [arg EXCEPT ![c] =
                 [id |-> arg[c].id, patch_id |-> arg[c].patch_id]]
    /\ ret' = [ret EXCEPT ![c] = Ok]
    /\ UNCHANGED <<writers, readers, calls, lastInsert, committed>>
    /\ UNCHANGED outsideStore

(* patch returns its result; the write guard goes out of scope. *)
PatchReturn(c) ==
    /\ pc[c] = "patch_return"
    /\ writers' = writers \ {c}
    /\ committed' = tickets
    /\ pc' = [pc EXCEPT ![c] = "idle"]
    /\ arg' = [arg EXCEPT ![c] = NoArg]
    /\ UNCHANGED <<tickets, readers, ret, calls, lastInsert>>
    /\ UNCHANGED outsideStore

Next ==
    \E c \in Callers :
        \/ CanCall(c) /\ \E ticket \in Ticket : InsertWrite(c, ticket)
        \/ InsertReturn(c)
        \/ CanCall(c) /\ \E id \in TicketId : GetRead(c, id)
        \/ GetReturn(c)
        \/ CanCall(c) /\ \E id \in TicketId, p \in TicketPatch :
                             PatchLookup(c, id, p)
        \/ UpdateTitle(c)
        \/ UpdateDescription(c)
        \/ UpdateStatus(c)
        \/ PatchReturn(c)

Spec == Init /\ [][Next]_vars

----------------------------------------------------------------------------
(* Two patches race on one ticket (the scenario of C8): c1 inserts any
   ticket; once the insert has returned, c1 patches only its title and c2
   patches only its status, in either order. *)

TitleOnly(id) ==
    [id |-> id, title |-> Some("Updated Title"), description |-> None,
     status |-> None]

StatusOnly(id) ==
    [id |-> id, title |-> None, description |-> None, status |-> Some("Done")]

NextPatchRace ==
    \/ \E ticket \in Ticket : calls = 0 /\ InsertWrite("c1", ticket)
    \/ InsertReturn("c1")
    \/ \E id \in DOMAIN committed :
           ret["c1"] = Unit /\ PatchLookup("c1", id, TitleOnly(id))
    \/ \E id \in DOMAIN committed :
           ret["c2"] = NoRet /\ PatchLookup("c2", id, StatusOnly(id))
    \/ \E c \in Callers : UpdateTitle(c)
    \/ \E c \in Callers : UpdateDescription(c)
    \/ \E c \in Callers : UpdateStatus(c)
    \/ \E c \in Callers : PatchReturn(c)

SpecPatchRace == Init /\ [][NextPatchRace]_vars

----------------------------------------------------------------------------
(* The ticket store server of exercises/07_threads: launch, the callers'
   side of the two channels, and the server loop. *)

\* The sends on the command channel a behaviour may make, over all callers.
MaxSent == 3

\* The capacity launch is called with (09_bounded).
LaunchCapacity == 1

Variants == {"07_ack", "08_client", "09_bounded"}

TicketDraft ==
    {[title |-> "this is a title", description |-> "this is a description"],
     [title |-> "Updated Title", description |-> "Original Description"]}

\* The ids callers ask the server for.
GetIds == {0, 1}

(* TicketStore of crate::store: the map and the counter of the next id. *)
NewTicketStore == [tickets |-> EmptyMap, counter |-> 0]

add_ticket(s, draft) ==
    [tickets |-> MapInsert(s.tickets, s.counter,
                           [id |-> s.counter, title |-> draft.title,
                            description |-> draft.description,
                            status |-> "ToDo"]),
     counter |-> s.counter + 1]

store_get(s, id) == MapGet(s.tickets, id)

(* Command: n is the number of the send that made the command; only the
   history variables use it. *)
Insert(draft, ch, n) ==
    [tag |-> "Insert", draft |-> draft, response_channel |-> ch, n |-> n]

Get(id, ch, n) ==
    [tag |-> "Get", id |-> id, response_channel |-> ch, n |-> n]

(* enum Command: the variants the server matches on. *)
CommandVariants == {Insert(d, 1, 1).tag : d \in TicketDraft}
                       \cup {Get(id, 1, 1).tag : id \in GetIds}

(* impl TicketStoreClient: the calls the handle offers. *)
ClientMethods == {"insert", "get"}

SendError == [tag |-> "SendError"]
RecvError == [tag |-> "RecvError"]

\* What a call returns when its reply arrived.
Returned(v) == [tag |-> "Returned", v |-> v]

\* The server thread after a panic, by the unwrap that panicked.
PanicNone == "panicked: called Option::unwrap() on a None value"
PanicSendError == "panicked: called Result::unwrap() on an Err value: SendError"

\* Faulty variant of ReplyChannel: every library keeps one reply channel per
\* kind of command.
ReplyChannelShared(v, kind, n) == kind

(* The channel a call's reply travels on.  08_client: launch makes one
   channel for the replies to Insert and one for the replies to Get, and the
   clones of the client share them.  07_ack, 09_bounded: a channel made for
   the call, here named by the number of the send. *)
ReplyChannel(v, kind, n) == IF v = "08_client" THEN kind ELSE n

(* 07_ack replies Some(tk.unwrap().clone()); the others ticket.cloned(). *)
UnwrapsTicket(v) == v = "07_ack"

(* 09_bounded unwraps the result of response_channel.send; 07_ack drops it
   and 08_client binds it to _. *)
UnwrapsSendResult(v) == v = "09_bounded"

\* Faulty variant of RecvIndex: the newest command is taken first.
RecvIndexLast(q) == Len(q)

(* receiver.recv() takes the oldest command of the channel. *)
RecvIndex(q) == 1

Remove(q, i) == [j \in 1..(Len(q) - 1) |-> IF j < i THEN q[j] ELSE q[j + 1]]

Drop(m, ch) == [x \in (DOMAIN m) \ {ch} |-> m[x]]

(* launch: the channel of commands, the server thread with a new store, and
   one client handle (07_ack: one Sender<Command>). *)
InitActor ==
    /\ NewStore
    /\ NoParse
    /\ NoHttp
    /\ NoSum
    /\ NoSaturating
    /\ variant \in Variants
    /\ capacity = IF variant = "09_bounded" THEN Some(LaunchCapacity) ELSE None
    /\ store = NewTicketStore
    /\ queue = <<>>
    /\ handles = {"c1"}
    /\ worker = "running"
    /\ at = [c \in Callers |-> "idle"]
    /\ sentCmd = [c \in Callers |-> NoArg]
    /\ got = [c \in Callers |-> NoRet]
    /\ replies = IF variant = "08_client"
                 THEN [kind \in {"Insert", "Get"} |-> <<>>] ELSE EmptyMap
    /\ sent = 0
    /\ accepted = <<>>
    /\ handled = <<>>
    /\ produced = EmptyMap

(* #[derive(Clone)] on the client (07_ack: Sender::clone). *)
CloneHandle(c, d) ==
    /\ c \in handles
    /\ d \notin handles
    /\ at[d] = "idle"
    /\ handles' = handles \cup {d}
    /\ UNCHANGED <<variant, capacity, store, queue, worker, at, sentCmd, got,
                   replies, sent, accepted, handled, produced>>
    /\ UNCHANGED outsideActor

(* A caller drops its handle.  The last clone of 08_client's handle takes
   the two reply channels with it. *)
DropHandle(c) ==
    /\ c \in handles
    /\ at[c] = "idle"
    /\ handles' = handles \ {c}
    /\ replies' = IF variant = "08_client" /\ handles = {c}
                  THEN EmptyMap ELSE replies
    /\ UNCHANGED <<variant, capacity, store, queue, worker, at, sentCmd, got,
                   sent, accepted, handled, produced>>
    /\ UNCHANGED outsideActor

(* A caller may send its next command.  08_client's handle holds
   Arc<Receiver<..>>, which is not Send: its clones stay on one thread, so a
   call starts only when no other call is waiting. *)
CanSend(c) ==
    /\ at[c] = "idle"
    /\ c \in handles
    /\ sent < MaxSent
    /\ variant = "08_client" => \A d \in Callers : at[d] # "waiting"

(* sender.send(command): the unbounded channel of mpsc::channel() takes the
   command while the server's Receiver is alive, and returns SendError once
   it is gone (09_bounded hands the error to the caller with ?, 08_client
   unwraps it).  A call of 07_ack and 09_bounded makes its reply channel
   first. *)
Send(c, cmd) ==
    /\ sent' = sent + 1
    /\ sentCmd' = [sentCmd EXCEPT ![c] = cmd]
    /\ IF worker = "running"
       THEN /\ queue' = Append(queue, cmd)
            /\ accepted' = Append(accepted, cmd)
            /\ at' = [at EXCEPT ![c] = "waiting"]
            /\ got' = [got EXCEPT ![c] = NoRet]
            /\ replies' = IF variant = "08_client" THEN replies
                          ELSE (cmd.response_channel :> <<>>) @@ replies
       ELSE /\ at' = [at EXCEPT ![c] =
                        IF variant = "08_client" THEN "panicked" ELSE "idle"]
            /\ got' = [got EXCEPT ![c] = Err(SendError)]
            /\ UNCHANGED <<queue, accepted, replies>>
    /\ UNCHANGED <<variant, capacity, store, handles, worker, handled,
                   produced>>
    /\ UNCHANGED outsideActor

(* insert: the first half, up to the command being sent. *)
SendInsert(c, draft) ==
    /\ CanSend(c)
    /\ Send(c, Insert(draft, ReplyChannel(variant, "Insert", sent + 1),
                      sent + 1))

(* get: the first half, up to the command being sent. *)
SendGet(c, id) ==
    /\ CanSend(c)
    /\ Send(c, Get(id, ReplyChannel(variant, "Get", sent + 1), sent + 1))

(* rx.recv() returns the oldest reply of the call's channel, and the call
   returns it; the channel of a call of 07_ack and 09_bounded is dropped. *)
RecvReply(c) ==
    /\ at[c] = "waiting"
    /\ sentCmd[c].response_channel \in DOMAIN replies
    /\ replies[sentCmd[c].response_channel] # <<>>
    /\ got' = [got EXCEPT ![c] =
                 Returned(Head(replies[sentCmd[c].response_channel]))]
    /\ replies' = IF variant = "08_client"
                  THEN [replies EXCEPT ![sentCmd[c].response_channel] = Tail(@)]
                  ELSE Drop(replies, sentCmd[c].response_channel)
    /\ at' = [at EXCEPT ![c] = "idle"]
    /\ UNCHANGED <<variant, capacity, store, queue, handles, worker, sentCmd,
                   sent, accepted, handled, produced>>
    /\ UNCHANGED outsideActor

(* rx.recv() finds the channel empty and its Sender gone: the command was
   dropped without a reply.  09_bounded's client unwraps the RecvError and
   the caller's thread panics, which drops its handle; the caller of 07_ack
   holds the Receiver itself and gets the error. *)
RecvDisconnected(c) ==
    /\ at[c] = "waiting"
    /\ variant # "08_client"
    /\ sentCmd[c].response_channel \in DOMAIN replies
    /\ replies[sentCmd[c].response_channel] = <<>>
    /\ \A i \in 1..Len(queue) :
           queue[i].response_channel # sentCmd[c].response_channel
    /\ replies' = Drop(replies, sentCmd[c].response_channel)
    /\ IF variant = "09_bounded"
       THEN /\ at' = [at EXCEPT ![c] = "panicked"]
            /\ handles' = handles \ {c}
            /\ got' = got
       ELSE /\ at' = [at EXCEPT ![c] = "idle"]
            /\ handles' = handles
            /\ got' = [got EXCEPT ![c] = Err(RecvError)]
    /\ UNCHANGED <<variant, capacity, store, queue, worker, sentCmd, sent,
                   accepted, handled, produced>>
    /\ UNCHANGED outsideActor

(* The sender of a command drops the Receiver of its reply channel without
   waiting for the reply.  Command is public in 07_ack (launch returns the
   Sender<Command>) and in 09_bounded (with server); 08_client keeps Command
   and the reply channels to itself. *)
Abandon(c) ==
    /\ at[c] = "waiting"
    /\ variant # "08_client"
    /\ sentCmd[c].response_channel \in DOMAIN replies
    /\ replies' = Drop(replies, sentCmd[c].response_channel)
    /\ at' = [at EXCEPT ![c] = "idle"]
    /\ UNCHANGED <<variant, capacity, store, queue, handles, worker, sentCmd,
                   got, sent, accepted, handled, produced>>
    /\ UNCHANGED outsideActor

(* server: Ok(Command::Insert { .. }).  A panic unwinds the thread: the
   Receiver goes and the commands still in the channel with it. *)
ServerInsert ==
    /\ worker = "running"
    /\ queue # <<>>
    /\ LET i == RecvIndex(queue)
           cmd == queue[i]
           id == store.counter
           delivered == cmd.response_channel \in DOMAIN replies
           panics == ~delivered /\ UnwrapsSendResult(variant)
       IN  /\ cmd.tag = "Insert"
           /\ store' = add_ticket(store, cmd.draft)
           /\ replies' = IF delivered
                         THEN [replies EXCEPT
                                  ![cmd.response_channel] = Append(@, id)]
                         ELSE replies
           /\ worker' = IF panics THEN PanicSendError ELSE "running"
           /\ queue' = IF panics THEN <<>> ELSE Remove(queue, i)
           /\ handled' = Append(handled, cmd.n)
           /\ produced' = (cmd.n :> id) @@ produced
    /\ UNCHANGED <<variant, capacity, handles, at, sentCmd, got, sent,
                   accepted>>
    /\ UNCHANGED outsideActor

(* server: Ok(Command::Get { .. }) *)
ServerGet ==
    /\ worker = "running"
    /\ queue # <<>>
    /\ LET i == RecvIndex(queue)
           cmd == queue[i]
           ticket == store_get(store, cmd.id)
           unwrapsNone == ticket = None /\ UnwrapsTicket(variant)
           delivered == ~unwrapsNone /\ cmd.response_channel \in DOMAIN replies
           panics == unwrapsNone \/ (~delivered /\ UnwrapsSendResult(variant))
       IN  /\ cmd.tag = "Get"
           /\ replies' = IF delivered
                         THEN [replies EXCEPT
                                  ![cmd.response_channel] = Append(@, ticket)]
                         ELSE replies
           /\ worker' = IF unwrapsNone THEN PanicNone
                        ELSE IF panics THEN PanicSendError ELSE "running"
           /\ queue' = IF panics THEN <<>> ELSE Remove(queue, i)
           /\ handled' = Append(handled, cmd.n)
           /\ produced' = IF unwrapsNone THEN produced
                          ELSE (cmd.n :> ticket) @@ produced
    /\ UNCHANGED <<variant, capacity, store, handles, at, sentCmd, got, sent,
                   accepted>>
    /\ UNCHANGED outsideActor

(* server: Err(_) => break.  recv() fails once the channel is empty and
   every Sender<Command> is gone. *)
ServerBreak ==
    /\ worker = "running"
    /\ queue = <<>>
    /\ handles = {}
    /\ worker' = "stopped"
    /\ UNCHANGED <<variant, capacity, store, queue, handles, at, sentCmd, got,
                   replies, sent, accepted, handled, produced>>
    /\ UNCHANGED outsideActor

NextActor ==
    \/ \E c \in Callers, d \in Callers : CloneHandle(c, d)
    \/ \E c \in Callers : DropHandle(c)
    \/ \E c \in Callers : CanSend(c) /\ \E draft \in TicketDraft :
                              SendInsert(c, draft)
    \/ \E c \in Callers : CanSend(c) /\ \E id \in GetIds : SendGet(c, id)
    \/ \E c \in Callers : RecvReply(c)
    \/ \E c \in Callers : RecvDisconnected(c)
    \/ \E c \in Callers : Abandon(c)
    \/ ServerInsert
    \/ ServerGet
    \/ ServerBreak

SpecActor == InitActor /\ [][NextActor]_vars

----------------------------------------------------------------------------
(* The fallible conversions of 08_outro's ticket.rs.  A string is the
   sequence of its characters; a character is named by a TLA+ string. *)

MaxTitleBytes == 50
MaxDescriptionBytes == 500

\* The raw strings of a title or description are up to this many characters
\* longer than the maximum.
MaxOver == 2

\* A raw string of a title or description ends with up to this many two-byte
\* characters.
MaxWide == 1

\* Characters whose UTF-8 encoding has two bytes; the others here have one.
TwoByteChars == {"U+00E9", "U+0130", "U+0307"}

\* Faulty variant of len: the characters are counted (chars().count()).
chars_count(s) == Len(s)

(* str::len: the length in bytes. *)
len(s) == Len(s) + Cardinality({i \in 1..Len(s) : s[i] \in TwoByteChars})

is_empty(s) == len(s) = 0

AsciiUpper == <<"T", "O", "D", "I", "N", "P", "R", "G", "E", "S", "V", "A", "L">>
AsciiLower == <<"t", "o", "d", "i", "n", "p", "r", "g", "e", "s", "v", "a", "l">>

(* char::to_lowercase: an ASCII capital gives its small letter, U+0130
   (capital I with dot above) gives i followed by the combining dot U+0307,
   and the other characters here stay as they are. *)
char_to_lowercase(ch) ==
    IF \E i \in 1..Len(AsciiUpper) : AsciiUpper[i] = ch
    THEN <<AsciiLower[CHOOSE i \in 1..Len(AsciiUpper) : AsciiUpper[i] = ch]>>
    ELSE IF ch = "U+0130" THEN <<"i", "U+0307">>
    ELSE <<ch>>

\* Faulty variant of to_lowercase: the string is matched as it is.
to_lowercase_skipped(s) == s

RECURSIVE to_lowercase(_)
to_lowercase(s) ==
    IF s = <<>> THEN <<>>
    ELSE char_to_lowercase(Head(s)) \o to_lowercase(Tail(s))

todo == <<"t", "o", "d", "o">>
inprogress == <<"i", "n", "p", "r", "o", "g", "r", "e", "s", "s">>
done == <<"d", "o", "n", "e">>

(* TicketParseError *)
StatusParseError(s) == [tag |-> "StatusParseError", s |-> s]
TitleTooLongError(s) == [tag |-> "TitleTooLongError", s |-> s]
DebugTooLongError(s) == [tag |-> "DebugTooLongError", s |-> s]
TitleEmptyError(s) == [tag |-> "TitleEmptyError", s |-> s]
DebugEmptyError(s) == [tag |-> "DebugEmptyError", s |-> s]

\* Ok(v)
OkWith(v) == [tag |-> "Ok", v |-> v]

(* impl TryFrom<&str> for TicketStatus *)
StatusTryFromStr(v) ==
    IF to_lowercase(v) = todo THEN OkWith("ToDo")
    ELSE IF to_lowercase(v) = inprogress THEN OkWith("InProgress")
    ELSE IF to_lowercase(v) = done THEN OkWith("Done")
    ELSE Err(StatusParseError(v))

(* impl TryFrom<String> for TicketStatus *)
StatusTryFromString(v) ==
    IF to_lowercase(v) = todo THEN OkWith("ToDo")
    ELSE IF to_lowercase(v) = inprogress THEN OkWith("InProgress")
    ELSE IF to_lowercase(v) = done THEN OkWith("Done")
    ELSE Err(StatusParseError(v))

(* impl TryFrom<&str> for TicketTitle: the newtype wraps the string. *)
TitleTryFromStr(v) ==
    IF is_empty(v) THEN Err(TitleEmptyError(v))
    ELSE IF len(v) > MaxTitleBytes THEN Err(TitleTooLongError(v))
    ELSE OkWith(v)

(* impl TryFrom<String> for TicketTitle *)
TitleTryFromString(v) == TitleTryFromStr(v)

(* impl TryFrom<&str> for TicketDescription *)
DescriptionTryFromStr(v) ==
    IF is_empty(v) THEN Err(DebugEmptyError(v))
    ELSE IF len(v) > MaxDescriptionBytes THEN Err(DebugTooLongError(v))
    ELSE OkWith(v)

(* impl TryFrom<String> for TicketDescription *)
DescriptionTryFromString(v) == DescriptionTryFromStr(v)

(* The raw strings the conversions are applied to. *)
Repeat(ch, n) == [i \in 1..n |-> ch]

\* n letters a, then m times the two-byte letter U+00E9.
LengthInputs(max) ==
    {Repeat("a", n) \o Repeat("U+00E9", m) :
         n \in 0..(max + MaxOver), m \in 0..MaxWide}

ascii_uppercase(ch) ==
    IF \E i \in 1..Len(AsciiLower) : AsciiLower[i] = ch
    THEN AsciiUpper[CHOOSE i \in 1..Len(AsciiLower) : AsciiLower[i] = ch]
    ELSE ch

\* word with capitals at the places of mask.
Capitalised(word, mask) ==
    [i \in 1..Len(word) |-> IF i \in mask THEN ascii_uppercase(word[i])
                            ELSE word[i]]

StatusWords ==
    {todo, inprogress, done, <<>>,
     <<"i", "n", "v", "a", "l", "i", "d">>,
     <<"t", "o", "d">>,
     <<"t", "o", "d", "o", "o">>,
     <<"t", "o", " ", "d", "o">>,
     <<" ", "d", "o", "n", "e">>}

StatusInputs ==
    {Capitalised(word, mask) :
         word \in StatusWords, mask \in SUBSET (1..Len(inprogress))}
    \cup {<<"U+0130", "n", "p", "r", "o", "g", "r", "e", "s", "s">>}

Inputs(type) ==
    CASE type = "TicketStatus" -> StatusInputs
      [] type = "TicketTitle" -> LengthInputs(MaxTitleBytes)
      [] type = "TicketDescription" -> LengthInputs(MaxDescriptionBytes)

InitParse ==
    /\ NewStore
    /\ NoActor
    /\ NoHttp
    /\ NoSum
    /\ NoSaturating
    /\ target \in {"TicketStatus", "TicketTitle", "TicketDescription"}
    /\ value \in Inputs(target)
    /\ converted = [from \in {"&str", "String"} |-> NoRet]

(* One conversion of the raw string, not made before. *)
Convert(type, from, result) ==
    /\ target = type
    /\ converted[from] = NoRet
    /\ converted' = [converted EXCEPT ![from] = result]
    /\ UNCHANGED <<target, value>>
    /\ UNCHANGED outsideParse

NextParse ==
    \/ Convert("TicketStatus", "&str", StatusTryFromStr(value))
    \/ Convert("TicketStatus", "String", StatusTryFromString(value))
    \/ Convert("TicketTitle", "&str", TitleTryFromStr(value))
    \/ Convert("TicketTitle", "String", TitleTryFromString(value))
    \/ Convert("TicketDescription", "&str", DescriptionTryFromStr(value))
    \/ Convert("TicketDescription", "String", DescriptionTryFromString(value))

SpecParse == InitParse /\ [][NextParse]_vars

----------------------------------------------------------------------------
(* The handlers of 08_outro's main.rs on the route /ticket.  A handler makes
   one call on the store, which the lock makes atomic for the other
   handlers; the handler is one step here. *)

\* The strings of the JSON bodies: titles and descriptions by their length,
\* statuses by their text.
JsonTitles == {Repeat("a", n) : n \in {0, 1, MaxTitleBytes + 1}}
JsonDescriptions == {Repeat("a", n) : n \in {0, 1, MaxDescriptionBytes + 1}}
JsonStatuses == {"ToDo", "Done", "todo"}

TicketBodies ==
    [id : TicketId, title : JsonTitles, description : JsonDescriptions,
     status : JsonStatuses]

PatchBodies ==
    [id : TicketId, title : Option(JsonTitles),
     description : Option(JsonDescriptions), status : Option(JsonStatuses)]

(* #[derive(Deserialize)] for TicketStatus takes the name of a variant, for
   the newtypes TicketTitle and TicketDescription any string, which it
   wraps. *)
DeserializeStatus(s) == IF s \in TicketStatus THEN OkWith(s) ELSE Err(s)

DeserializeTicket(body) ==
    IF DeserializeStatus(body.status).tag = "Ok" THEN OkWith(body)
    ELSE Err(body.status)

DeserializePatch(body) ==
    IF body.status.tag = "Some"
          /\ DeserializeStatus(body.status.v).tag # "Ok"
    THEN Err(body.status.v)
    ELSE OkWith(body)

\* The response of the Json extractor to a body it cannot deserialize.
JsonRejection == [status |-> 422, body |-> "JsonDataError"]

(* #[error(..)] of PatchError and TicketUpdateError *)
Display(e) ==
    IF e.tag = "NotFound" THEN <<"Requested Ticket", e.id, "not found">>
    ELSE <<"Ticket ID mismatch, original:", e.source.original_id,
           "patch:", e.source.patch_id>>

\* Faulty variant of BadRequest: the status is INTERNAL_SERVER_ERROR.
InternalServerError(error_msg) ==
    [status |-> 500, body |-> [error |-> error_msg]]

(* impl IntoResponse for AppError *)
BadRequest(error_msg) == [status |-> 400, body |-> [error |-> error_msg]]

\* Faulty variant of PatchKey: the handler asks for another id than the
\* patch's own.
PatchKeyFirst(patch) == CHOOSE id \in TicketId : \A other \in TicketId : id <= other

(* update_ticket: the id argument of store.patch(patch.id, patch) *)
PatchKey(patch) == patch.id

\* Ok(..) of a handler
Success(body) == [status |-> 200, body |-> body]

InitHttp ==
    /\ NewStore
    /\ NoActor
    /\ NoParse
    /\ NoHttp
    /\ NoSum
    /\ NoSaturating

(* POST /ticket *)
create_ticket(body) ==
    /\ request' = [method |-> "POST", id |-> body.id]
    /\ IF DeserializeTicket(body).tag = "Ok"
       THEN /\ tickets' = MapInsert(tickets, body.id, DeserializeTicket(body).v)
            /\ response' = Success([id |-> body.id])
       ELSE /\ tickets' = tickets
            /\ response' = JsonRejection
    /\ UNCHANGED outsideHttp

(* GET /ticket *)
get_ticket(id) ==
    /\ request' = [method |-> "GET", id |-> id]
    /\ response' = IF MapGet(tickets, id) = None
                   THEN BadRequest("Ticket not found")
                   ELSE Success(MapGet(tickets, id).v)
    /\ tickets' = tickets
    /\ UNCHANGED outsideHttp

(* PATCH /ticket: store.patch(patch.id, patch)? *)
update_ticket(body) ==
    /\ request' = [method |-> "PATCH", id |-> body.id]
    /\ IF DeserializePatch(body).tag # "Ok"
       THEN /\ tickets' = tickets
            /\ response' = JsonRejection
       ELSE LET p == DeserializePatch(body).v
                id == PatchKey(p)
            IN  CASE PatchOutcome(tickets, id, p) = "NotFound" ->
                       /\ tickets' = tickets
                       /\ response' = BadRequest(Display(NotFound(id)))
                  [] PatchOutcome(tickets, id, p) = "Mismatch" ->
                       /\ tickets' = tickets
                       /\ response' = BadRequest(Display(Mismatch(
                              TicketUpdateError(tickets[id].id, p.id))))
                  [] PatchOutcome(tickets, id, p) = "Update" ->
                       /\ tickets' = [tickets EXCEPT ![id] =
                              SetStatus(SetDescription(SetTitle(@, p.title),
                                                       p.description),
                                        p.status)]
                       /\ response' = Success(Unit)
    /\ UNCHANGED outsideHttp

NextHttp ==
    \/ \E body \in TicketBodies : create_ticket(body)
    \/ \E id \in TicketId : get_ticket(id)
    \/ \E body \in PatchBodies : update_ticket(body)

SpecHttp == InitHttp /\ [][NextHttp]_vars

----------------------------------------------------------------------------
(* Properties *)

Idle == \A c \in Callers : pc[c] = "idle"

HoldsWrite(c) ==
    pc[c] \in {"insert", "update_title", "update_description",
               "update_status", "patch_return"}

HoldsRead(c) == pc[c] = "get_return"

\* C1: a get of an id whose last write was insert(t), with no patch called on
\* the id since, returns Some(t), whatever was done to other ids meanwhile;
\* a get of an id that was never inserted (every id of a new store) returns
\* None.
C1_GetReturnsInserted ==
    \A c \in Callers :
        pc[c] = "get_return" =>
            /\ (arg[c] \in DOMAIN lastInsert /\ lastInsert[arg[c]] # None)
                   => ret[c] = lastInsert[arg[c]]
            /\ arg[c] \notin DOMAIN lastInsert => ret[c] = None

C1_Witness ==
    \E c \in Callers :
        /\ pc[c] = "get_return"
        /\ ret[c].tag = "Some"
        /\ arg[c] \in DOMAIN lastInsert
        /\ ret[c] = lastInsert[arg[c]]
        /\ \E other \in DOMAIN tickets : other # arg[c]

\* C2: every step of a successful Ticket::update replaces the field it is
\* about exactly when the patch carries Some value for it, and leaves the
\* ticket's other fields, its id, and every other entry of the map as they
\* were.
C2_Step(c, from, to, field) ==
    (pc[c] = from /\ pc'[c] = to) =>
        LET id == arg[c].id
            old == tickets[id]
            new == tickets'[id]
            opt == arg[c][field]
        IN  /\ DOMAIN tickets' = DOMAIN tickets
            /\ \A x \in DOMAIN tickets : x # id => tickets'[x] = tickets[x]
            /\ new.id = old.id
            /\ new[field] = IF opt.tag = "Some" THEN opt.v ELSE old[field]
            /\ \A f \in {"title", "description", "status"} \ {field} :
                   new[f] = old[f]

C2_PatchReplacesSomeFields ==
    [][\A c \in Callers :
          /\ C2_Step(c, "update_title", "update_description", "title")
          /\ C2_Step(c, "update_description", "update_status", "description")
          /\ C2_Step(c, "update_status", "patch_return", "status")
          /\ (pc[c] = "update_status" /\ pc'[c] = "patch_return")
                 => ret'[c] = Ok]_vars

\* The scenario of the store's test: ticket 42 is ToDo, the patch sets only
\* the status, to Done, and title and description are as they were.
C2_Witness ==
    \E c \in Callers :
        /\ pc[c] = "patch_return"
        /\ ret[c] = Ok
        /\ arg[c].id = 42
        /\ committed[42].status = "ToDo"
        /\ tickets[42] = [committed[42] EXCEPT !.status = "Done"]

\* C3: a patch of an id that has no entry returns NotFound(id), also when the
\* patch's own id differs from id, and the map is as it was before the call.
C3_PatchNotFound ==
    \A c \in Callers :
        (pc[c] = "patch_return" /\ arg[c].id \notin DOMAIN committed) =>
            /\ ret[c] = Err(NotFound(arg[c].id))
            /\ tickets = committed
            /\ MapGet(tickets, arg[c].id) = None

C3_Witness ==
    \E c \in Callers :
        /\ pc[c] = "patch_return"
        /\ arg[c].id \notin DOMAIN committed
        /\ arg[c].patch_id # arg[c].id
        /\ arg[c].patch_id \in DOMAIN tickets
        /\ ret[c] = Err(NotFound(arg[c].id))

\* C4: a patch whose id differs from the id of the ticket it is applied to
\* returns Mismatch with original_id the ticket's id and patch_id the
\* patch's id, and no entry of the map is modified.
C4_PatchMismatch ==
    \A c \in Callers :
        (/\ pc[c] = "patch_return"
         /\ arg[c].id \in DOMAIN committed
         /\ committed[arg[c].id].id # arg[c].patch_id) =>
            /\ ret[c] = Err(Mismatch(TicketUpdateError(committed[arg[c].id].id,
                                                       arg[c].patch_id)))
            /\ tickets = committed

C4_Witness ==
    \E c \in Callers :
        /\ pc[c] = "patch_return"
        /\ arg[c].id \in DOMAIN committed
        /\ arg[c].patch_id # arg[c].id
        /\ ret[c] = Err(Mismatch(TicketUpdateError(arg[c].id, arg[c].patch_id)))

\* C5: while insert(t) holds the write guard the entry under t.id is t,
\* whether or not the id was present before, and every other id has the
\* entry (or no entry) it had before the insert.
C5_InsertOverwrites ==
    \A c \in Callers :
        pc[c] = "insert" =>
            /\ MapGet(tickets, arg[c].id) = Some(arg[c])
            /\ \A x \in TicketId \ {arg[c].id} :
                   MapGet(tickets, x) = MapGet(committed, x)

C5_Witness ==
    \E c \in Callers :
        /\ pc[c] = "insert"
        /\ arg[c].id \in DOMAIN committed
        /\ committed[arg[c].id] # arg[c]
        /\ tickets[arg[c].id] = arg[c]

\* C6: no step of a get changes the map, and the value a get returned stays
\* what it was while the caller is idle, whatever others insert or patch.
C6_GetIsPure ==
    [][\A c \in Callers :
          /\ (pc[c] # pc'[c] /\ "get_return" \in {pc[c], pc'[c]})
                 => tickets' = tickets
          /\ (pc[c] = "idle" /\ pc'[c] = "idle") => ret'[c] = ret[c]]_vars

C6_Witness ==
    \E c \in Callers :
        /\ pc[c] = "idle"
        /\ ret[c].tag = "Some"
        /\ ret[c].v.id \in DOMAIN committed
        /\ committed[ret[c].v.id] # ret[c].v

\* C7: when no call is running, the map holds exactly the ids that were
\* inserted, and each id that was not patched after its last insert holds
\* the ticket of that insert: no insert is lost to a concurrent one.
C7_NoLostInsert ==
    Idle =>
        /\ DOMAIN tickets = DOMAIN lastInsert
        /\ \A id \in DOMAIN lastInsert :
               lastInsert[id] # None => tickets[id] = lastInsert[id].v

C7_Witness ==
    /\ Idle
    /\ \A c \in Callers : ret[c] = Unit
    /\ Cardinality(DOMAIN tickets) = Cardinality(Callers)
    /\ \A id \in DOMAIN tickets : lastInsert[id] = Some(tickets[id])

\* C8: after c1's title-only patch and c2's status-only patch of the same
\* existing ticket have both returned, both returned Ok and the ticket has
\* the new title and the new status (and the description it had).
C8_BothPatchesApplied ==
    (Idle /\ calls = 3) =>
        /\ ret["c1"] = Ok
        /\ ret["c2"] = Ok
        /\ \A id \in DOMAIN tickets :
               /\ tickets[id].title = "Updated Title"
               /\ tickets[id].status = "Done"

C8_Witness ==
    /\ Idle
    /\ calls = 3
    /\ ret["c1"] = Ok
    /\ ret["c2"] = Ok
    /\ \E id \in DOMAIN tickets :
           /\ tickets[id].title = "Updated Title"
           /\ tickets[id].status = "Done"

\* C9: a caller inside insert or patch holds the write guard and is alone
\* with the lock; callers inside get hold read guards, several at a time;
\* an idle caller (one that has returned) holds no guard.
C9_ReadersWriterExclusion ==
    /\ writers = {c \in Callers : HoldsWrite(c)}
    /\ readers = {c \in Callers : HoldsRead(c)}
    /\ Cardinality(writers) <= 1
    /\ writers # {} => readers = {}
    /\ \A c \in Callers : pc[c] = "idle" => c \notin writers \cup readers

C9_Witness == readers = Callers

\* C10: a get returns the entry as the last completed insert or patch left
\* it, never an entry some of whose fields a running patch has replaced.
C10_GetSeesCommitted ==
    \A c \in Callers :
        pc[c] = "get_return" => ret[c] = MapGet(committed, arg[c])

\* A patch has replaced the title and is about to replace description and
\* status, and the other caller's earlier get returned the ticket as it was.
C10_Witness ==
    \E w \in Callers, r \in Callers :
        /\ pc[w] = "update_description"
        /\ tickets[arg[w].id].title # committed[arg[w].id].title
        /\ arg[w].description.tag = "Some"
        /\ arg[w].description.v # tickets[arg[w].id].description
        /\ arg[w].status.tag = "Some"
        /\ arg[w].status.v # tickets[arg[w].id].status
        /\ pc[r] = "idle"
        /\ ret[r] = Some(committed[arg[w].id])

----------------------------------------------------------------------------
(* Properties of the ticket store server *)

\* The accepted command with number n.
Cmd(n) == CHOOSE cmd \in {accepted[i] : i \in 1..Len(accepted)} : cmd.n = n

\* The Insert commands among the first k accepted commands.
InsertsUpTo(k) == {i \in 1..k : accepted[i].tag = "Insert"}

\* C11: the server thread has left its loop only if no Sender<Command>
\* remains and the command channel is empty: while a handle exists the
\* server runs, whatever commands it has received.
C11_StopsOnlyOnDisconnect ==
    worker # "running" => (handles = {} /\ queue = <<>>)

\* C12: when the server has handled a Get of an id that is not in the store,
\* it has made the reply None for it and has not panicked on the missing
\* ticket.
C12_GetAbsentRepliesNone ==
    \A i \in 1..Len(handled) :
        (Cmd(handled[i]).tag = "Get"
             /\ Cmd(handled[i]).id \notin DOMAIN store.tickets) =>
            /\ handled[i] \in DOMAIN produced
            /\ produced[handled[i]] = None
            /\ worker # PanicNone

\* C13: a reply that cannot be sent, because the Receiver of the command's
\* reply channel was dropped, never takes the server down.
C13_AbandonedReplyHarmless == worker # PanicSendError

\* C14: the server handles the commands in the order the command channel
\* accepted them, and a Get(id) accepted after the Insert that is given id
\* returns that Insert's ticket.
C14_HandledInOrder ==
    /\ Len(handled) <= Len(accepted)
    /\ \A i \in 1..Len(handled) : handled[i] = accepted[i].n
    /\ \A c \in Callers :
           (got[c].tag = "Returned" /\ sentCmd[c].tag = "Get") =>
               \A k \in 1..Len(accepted) :
                   (/\ accepted[k].tag = "Insert"
                    /\ accepted[k].n < sentCmd[c].n
                    /\ Cardinality(InsertsUpTo(k)) = sentCmd[c].id + 1) =>
                       got[c].v = Some([id |-> sentCmd[c].id,
                                        title |-> accepted[k].draft.title,
                                        description |->
                                            accepted[k].draft.description,
                                        status |-> "ToDo"])

\* After two Inserts a caller's Get of the second id returned the second
\* Insert's ticket.
C14_Witness ==
    \E c \in Callers :
        /\ got[c].tag = "Returned"
        /\ sentCmd[c].tag = "Get"
        /\ sentCmd[c].id = 1
        /\ got[c].v.tag = "Some"
        /\ got[c].v.v.title = accepted[2].draft.title
        /\ accepted[1].draft # accepted[2].draft
        /\ Len(handled) = 3

\* C15: the commands in the command channel of a server made by
\* launch(capacity) are never more than capacity.
C15_QueueWithinCapacity ==
    capacity # None => Len(queue) <= capacity.v

\* C16: what a call returned is the reply the server made for the command
\* this call sent.
C16_ReplyPairing ==
    \A c \in Callers :
        got[c].tag = "Returned" =>
            /\ sentCmd[c].n \in DOMAIN produced
            /\ got[c].v = produced[sentCmd[c].n]

\* Two calls overlap on two threads: d sent first and its reply is still in
\* its channel, c sent later and has already returned with its own reply.
C16_Witness ==
    \E c \in Callers, d \in Callers :
        /\ variant = "09_bounded"
        /\ got[c].tag = "Returned"
        /\ at[d] = "waiting"
        /\ sentCmd[d].n < sentCmd[c].n
        /\ sentCmd[d].response_channel \in DOMAIN replies
        /\ replies[sentCmd[d].response_channel] # <<>>
        /\ produced[sentCmd[d].n] # produced[sentCmd[c].n]

\* C17: a caller that waits for its reply waits on a running server, or the
\* reply is already in its channel: no accepted command is left without a
\* reply.
C17_NoCommandLeftUnanswered ==
    \A c \in Callers :
        at[c] = "waiting" =>
            \/ worker = "running"
            \/ /\ sentCmd[c].response_channel \in DOMAIN replies
               /\ replies[sentCmd[c].response_channel] # <<>>

----------------------------------------------------------------------------
(* Properties of the conversions and of the handlers *)

\* The bytes of the UTF-8 encoding of a string.
Utf8Bytes(s) ==
    Cardinality({i \in 1..Len(s) : s[i] \notin TwoByteChars})
        + 2 * Cardinality({i \in 1..Len(s) : s[i] \in TwoByteChars})

\* s is word with any of its letters written as capitals.
CaseVariant(s, word) ==
    /\ Len(s) = Len(word)
    /\ \A i \in 1..Len(word) : s[i] \in {word[i], ascii_uppercase(word[i])}

\* C18: every ticket in the shared store has a title of 1 to 50 bytes and a
\* description of 1 to 500 bytes, also when it came in through the HTTP
\* handlers.
C18_StoredTicketsValid ==
    \A id \in DOMAIN tickets :
        /\ Utf8Bytes(tickets[id].title) \in 1..MaxTitleBytes
        /\ Utf8Bytes(tickets[id].description) \in 1..MaxDescriptionBytes

\* C19: try_from of a title or description, from &str and from String,
\* fails with the type's empty error on the empty string, with the type's
\* too-long error on a string of more bytes than the maximum, and wraps
\* every other string unchanged; the errors carry the string.
C19_LengthValidation ==
    \A from \in DOMAIN converted :
        converted[from] # NoRet =>
            /\ target = "TicketTitle" =>
                   converted[from] =
                       IF value = <<>> THEN Err(TitleEmptyError(value))
                       ELSE IF Utf8Bytes(value) >= MaxTitleBytes + 1
                            THEN Err(TitleTooLongError(value))
                       ELSE OkWith(value)
            /\ target = "TicketDescription" =>
                   converted[from] =
                       IF value = <<>> THEN Err(DebugEmptyError(value))
                       ELSE IF Utf8Bytes(value) >= MaxDescriptionBytes + 1
                            THEN Err(DebugTooLongError(value))
                       ELSE OkWith(value)

\* A title of 50 characters and 51 bytes was rejected as too long by both
\* conversions.
C19_Witness ==
    /\ target = "TicketTitle"
    /\ Len(value) = MaxTitleBytes
    /\ Utf8Bytes(value) = MaxTitleBytes + 1
    /\ \A from \in DOMAIN converted :
           converted[from] = Err(TitleTooLongError(value))

\* C20: try_from of a status, from &str and from String, gives ToDo,
\* InProgress or Done for todo, inprogress or done written in any letter
\* case, and fails on every other string with StatusParseError carrying the
\* string as it was given.
C20_StatusParsing ==
    \A from \in DOMAIN converted :
        (target = "TicketStatus" /\ converted[from] # NoRet) =>
            converted[from] =
                IF CaseVariant(value, todo) THEN OkWith("ToDo")
                ELSE IF CaseVariant(value, inprogress) THEN OkWith("InProgress")
                ELSE IF CaseVariant(value, done) THEN OkWith("Done")
                ELSE Err(StatusParseError(value))

\* InProgress, written with capitals, was parsed by both conversions.
C20_Witness ==
    /\ target = "TicketStatus"
    /\ value = <<"I", "n", "P", "r", "o", "g", "r", "e", "s", "s">>
    /\ \A from \in DOMAIN converted : converted[from] = OkWith("InProgress")

\* C21: a GET for an id that is not in the store and a PATCH that the store
\* refuses are answered with status 400 and an error message; a POST, a GET
\* of an id that is in the store (after a POST of it, the ticket posted) and
\* a PATCH of an id that is in the store are answered with status 200,
\* unless the body could not be deserialized; a request that is not answered
\* with 200 leaves the store as it was.
C21_HttpOutcomes ==
    [][/\ (request'.method = "GET" /\ request'.id \notin DOMAIN tickets) =>
              /\ response'.status = 400
              /\ "error" \in DOMAIN response'.body
       /\ (request'.method = "GET" /\ request'.id \in DOMAIN tickets) =>
              response' = Success(tickets[request'.id])
       /\ (request'.method = "PATCH" /\ request'.id \notin DOMAIN tickets
               /\ response' # JsonRejection) =>
              /\ response'.status = 400
              /\ "error" \in DOMAIN response'.body
       /\ (request'.method = "PATCH" /\ request'.id \in DOMAIN tickets
               /\ response' # JsonRejection) =>
              response'.status = 200
       /\ (request'.method = "POST" /\ response' # JsonRejection) =>
              /\ response'.status = 200
              /\ request'.id \in DOMAIN tickets'
       /\ response'.status # 200 => tickets' = tickets]_vars

\* A PATCH for an id that is not in the store was answered with 400, and the
\* ticket posted before is still there.
C21_Witness ==
    /\ request # NoArg
    /\ request.method = "PATCH"
    /\ request.id \notin DOMAIN tickets
    /\ response.status = 400
    /\ tickets # EmptyMap

\* C24: a PATCH request is refused by the store only with NotFound of the
\* patch's id, never with the id mismatch of Ticket::update.
C24_HttpPatchFailsOnlyNotFound ==
    (request # NoArg /\ request.method = "PATCH"
         /\ response.status \notin {200, 422}) =>
        /\ response = BadRequest(Display(NotFound(request.id)))
        /\ request.id \notin DOMAIN tickets

\* A PATCH for id 42 was refused with NotFound while ticket 1 is stored.
C24_Witness ==
    /\ request = [method |-> "PATCH", id |-> 42]
    /\ response = BadRequest(Display(NotFound(42)))
    /\ DOMAIN tickets = {1}

\* C23: every entry of the map is stored under the key equal to its own
\* ticket's id (so no two entries have the same id), at every point of any
\* interleaving of insert, get and patch calls.
C23_KeyIsTicketId ==
    /\ \A k \in DOMAIN tickets : tickets[k].id = k
    /\ \A k \in DOMAIN committed : committed[k].id = k

\* Two tickets are stored and a patch called with an id argument different
\* from the patch's id has been refused.
C23_Witness ==
    \E c \in Callers :
        /\ Cardinality(DOMAIN tickets) = 2
        /\ ret[c].tag = "Err"
        /\ ret[c].e.tag = "Mismatch"

\* C25: no step removes an id from the map, only the write of insert adds
\* one, and an id that a get has returned Some for is still in the map after
\* every later step of any caller.
C25_IdsNeverShrink ==
    [][/\ DOMAIN tickets \subseteq DOMAIN tickets'
       /\ DOMAIN tickets' # DOMAIN tickets =>
              \E c \in Callers : pc[c] = "idle" /\ pc'[c] = "insert"
       /\ \A c \in Callers :
              ret[c].tag = "Some" => MapGet(tickets', ret[c].v.id) # None]_vars

\* A get has returned Some to one caller, and afterwards another caller's
\* insert has added a new id.
C25_Witness ==
    \E c, d \in Callers :
        /\ pc[c] = "idle"
        /\ ret[c].tag = "Some"
        /\ pc[d] = "insert"
        /\ arg[d].id # ret[c].v.id
        /\ arg[d].id \notin DOMAIN committed
        /\ ret[c].v.id \in DOMAIN tickets

\* C22: the actor front-end supports a Patch command: every client handle
\* offers patch beside insert and get, and the Patch command it would send
\* is a variant of Command that the worker accepts.
C22_PatchSupported ==
    \A c \in handles :
        /\ {"insert", "get", "patch"} \subseteq ClientMethods
        /\ "Patch" \in CommandVariants

----------------------------------------------------------------------------
(* sum of exercises/07_threads/02_static *)

\* The longest slice sum is called with.
MaxLen == 3

(* i32: the largest and the smallest value *)
MaxI32 == 2147483647
MinI32 == (-MaxI32) - 1

\* The elements of the slices: small values of both signs and the two ends
\* of i32.
I32Values == {-1, 1, 2, MaxI32, MinI32}

Slices == UNION {[1..n -> I32Values] : n \in 0..MaxLen}

Builds == {"debug", "release"}

Threads == {"t1", "t2"}

(* a + b leaves i32 *)
Overflows(a, b) ==
    \/ b > 0 /\ a > MaxI32 - b
    \/ b < 0 /\ a < MinI32 - b

(* a + b with overflow checks off: the sum modulo 2^32, computed without
   leaving i32 *)
WrappingAdd(a, b) ==
    IF b > 0 /\ a > MaxI32 - b THEN (a + MinI32) + (b + MinI32)
    ELSE IF b < 0 /\ a < MinI32 - b
         THEN ((a + MaxI32) + 1) + ((b + MaxI32) + 1)
         ELSE a + b

\* How a thread ended that panicked.
Panicked(msg) == [tag |-> "Panicked", msg |-> msg]
PanicOverflow == Panicked("attempt to add with overflow")
PanicJoin == Panicked("called Result::unwrap() on an Err value: Any")

(* a + b on i32, and the step of Iterator::sum, which inherits the overflow
   checks of the calling crate *)
I32Add(b, x, y) ==
    IF b = "debug" /\ Overflows(x, y) THEN PanicOverflow
    ELSE Returned(WrappingAdd(x, y))

\* Faulty variant of split_at: the second half starts one element late.
split_at_dropping(s, mid) ==
    <<SubSeq(s, 1, mid), SubSeq(s, mid + 2, Len(s))>>

(* slice.split_at(mid) *)
split_at(s, mid) == <<SubSeq(s, 1, mid), SubSeq(s, mid + 1, Len(s))>>

(* thread::spawn(|| s.iter().sum()): the thread starts from 0 with all of s
   to add *)
Spawned(s) == [rest |-> s, acc |-> 0, state |-> "running"]

(* sum up to the first join: the slice is split at len/2 and both threads
   are spawned *)
InitSum ==
    /\ NewStore
    /\ NoActor
    /\ NoParse
    /\ NoHttp
    /\ NoSaturating
    /\ slice \in Slices
    /\ build \in Builds
    /\ thread = [t \in Threads |->
                    IF t = "t1"
                    THEN Spawned(split_at(slice, Len(slice) \div 2)[1])
                    ELSE Spawned(split_at(slice, Len(slice) \div 2)[2])]
    /\ main = [pc |-> "join_t1", s1s |-> NoRet, s2s |-> NoRet, ret |-> NoRet]
    /\ finished = <<>>

(* One step of iter().sum() in thread t: the next element is added to the
   running sum, or the thread panics on overflow. *)
ThreadAdd(t) ==
    /\ thread[t].state = "running"
    /\ thread[t].rest # <<>>
    /\ LET r == I32Add(build, thread[t].acc, Head(thread[t].rest))
       IN  IF r = PanicOverflow
           THEN /\ thread' = [thread EXCEPT ![t].state = "panicked"]
                /\ finished' = Append(finished, t)
           ELSE /\ thread' = [thread EXCEPT ![t].acc = r.v,
                                            ![t].rest = Tail(thread[t].rest)]
                /\ UNCHANGED finished
    /\ UNCHANGED <<slice, build, main>>
    /\ UNCHANGED outsideSum

(* The closure of thread t returns the sum. *)
ThreadReturn(t) ==
    /\ thread[t].state = "running"
    /\ thread[t].rest = <<>>
    /\ thread' = [thread EXCEPT ![t].state = "done"]
    /\ finished' = Append(finished, t)
    /\ UNCHANGED <<slice, build, main>>
    /\ UNCHANGED outsideSum

(* let s1s: i32 = t1.join().unwrap(); *)
JoinT1 ==
    /\ main.pc = "join_t1"
    /\ thread["t1"].state # "running"
    /\ main' = IF thread["t1"].state = "done"
               THEN [main EXCEPT !.pc = "join_t2", !.s1s = thread["t1"].acc]
               ELSE [main EXCEPT !.pc = "panicked", !.ret = PanicJoin]
    /\ UNCHANGED <<slice, build, thread, finished>>
    /\ UNCHANGED outsideSum

(* let s2s: i32 = t2.join().unwrap(); *)
JoinT2 ==
    /\ main.pc = "join_t2"
    /\ thread["t2"].state # "running"
    /\ main' = IF thread["t2"].state = "done"
               THEN [main EXCEPT !.pc = "add", !.s2s = thread["t2"].acc]
               ELSE [main EXCEPT !.pc = "panicked", !.ret = PanicJoin]
    /\ UNCHANGED <<slice, build, thread, finished>>
    /\ UNCHANGED outsideSum

(* s1s + s2s *)
AddHalves ==
    /\ main.pc = "add"
    /\ LET r == I32Add(build, main.s1s, main.s2s)
       IN  main' = IF r = PanicOverflow
                   THEN [main EXCEPT !.pc = "panicked", !.ret = r]
                   ELSE [main EXCEPT !.pc = "returned", !.ret = r]
    /\ UNCHANGED <<slice, build, thread, finished>>
    /\ UNCHANGED outsideSum

NextSum ==
    \/ \E t \in Threads : ThreadAdd(t)
    \/ \E t \in Threads : ThreadReturn(t)
    \/ JoinT1
    \/ JoinT2
    \/ AddHalves

SpecSum == InitSum /\ [][NextSum]_vars

----------------------------------------------------------------------------
(* Properties of sum *)

\* The sum of the elements of s as an integer, kept inside 32 bits by adding
\* the eighths and the remainders of the elements apart:
\* sum = 8 * QuotOf(s) + RestOf(s) % 8.
RECURSIVE EighthsOf(_)
EighthsOf(s) ==
    IF s = <<>> THEN 0 ELSE (Head(s) \div 8) + EighthsOf(Tail(s))

RECURSIVE RestOf(_)
RestOf(s) == IF s = <<>> THEN 0 ELSE (Head(s) % 8) + RestOf(Tail(s))

QuotOf(s) == EighthsOf(s) + (RestOf(s) \div 8)

\* The sum of the elements of s is an i32.
FitsI32(s) == QuotOf(s) >= MinI32 \div 8 /\ QuotOf(s) <= MaxI32 \div 8

\* The sum of the elements of s, for an s with FitsI32(s).
ExactSum(s) == (8 * QuotOf(s)) + (RestOf(s) % 8)

\* Adding the elements of s one after the other from 0 never leaves i32.
PrefixesFit(s) == \A k \in 1..Len(s) : FitsI32(SubSeq(s, 1, k))

\* sum(s) in build b meets no overflow it cannot recover from: the sum of s
\* is an i32 and, with overflow checks on, so is every running sum of the
\* elements before and of the elements from position len/2.
WithinI32(s, b) ==
    /\ FitsI32(s)
    /\ b = "debug" =>
           /\ PrefixesFit(SubSeq(s, 1, Len(s) \div 2))
           /\ PrefixesFit(SubSeq(s, (Len(s) \div 2) + 1, Len(s)))

\* C26 as stated: for every slice, sum ends by returning the sum of all its
\* elements, whatever the order in which the threads ran and ended.
C26_SumOfEverySlice ==
    main.pc \in {"returned", "panicked"} =>
        /\ main.pc = "returned"
        /\ FitsI32(slice)
        /\ main.ret = Returned(ExactSum(slice))

\* C26, amended: for every slice whose sum is an i32 and, in a build with
\* overflow checks, whose halves can be added up without leaving i32, no
\* thread panics and sum ends only by returning the sum of all elements,
\* whatever the order in which the threads ran and ended.
C26_SumWithinI32 ==
    WithinI32(slice, build) =>
        /\ \A t \in Threads : thread[t].state # "panicked"
        /\ main.pc # "panicked"
        /\ main.pc = "returned" => main.ret = Returned(ExactSum(slice))

\* sum returned the sum of a slice of odd length whose second half was
\* added up before the first.
C26_Witness ==
    /\ Len(slice) = 3
    /\ finished = <<"t2", "t1">>
    /\ main.pc = "returned"
    /\ WithinI32(slice, build)
    /\ main.ret = Returned(ExactSum(slice))

----------------------------------------------------------------------------
(* SaturatingU16 of exercises/04_traits/14_outro *)

\* How far from 0 and from the largest value the operands are taken.
MaxNear == 2

(* u16 and u8: the largest value *)
MaxU16 == 65535
MaxU8 == 255

\* The operands: the values near both ends of u16, around the end of u8 and
\* around the middle of u16.
U16Inputs ==
    (0..MaxNear) \cup {MaxU8, MaxU8 + 1}
        \cup {MaxU16 \div 2, (MaxU16 \div 2) + 1}
        \cup ((MaxU16 - MaxNear)..MaxU16)

(* struct SaturatingU16 { value: u16 } *)
SaturatingU16(n) == [value |-> n]

(* n as u16, for a u8 n *)
as_u16(n) == n % (MaxU16 + 1)

\* Faulty variant of saturating_add: the sum wraps around.
wrapping_add(a, b) == (a + b) % (MaxU16 + 1)

(* u16::saturating_add *)
saturating_add(a, b) == IF a + b > MaxU16 THEN MaxU16 ELSE a + b

(* impl From<u16>, From<&u16>, From<u8>, From<&u8> for SaturatingU16 *)
From_u16(n) == SaturatingU16(n)
From_ref_u16(n) == SaturatingU16(n)
From_u8(n) == SaturatingU16(as_u16(n))
From_ref_u8(n) == SaturatingU16(as_u16(n))

(* impl PartialEq<u16> for SaturatingU16 *)
PartialEq_u16(self, other) == self.value = other

(* impl PartialOrd<u16> for SaturatingU16 *)
PartialOrd_u16(self, other) ==
    Some(IF self.value < other THEN "Less"
         ELSE IF self.value = other THEN "Equal" ELSE "Greater")

(* impl PartialEq<SaturatingU16> for SaturatingU16 *)
PartialEq_SaturatingU16(self, other) == self.value = other.value

(* impl Add<u16> for SaturatingU16: the output is a u16 *)
Add_u16(self, r) == saturating_add(self.value, r)

(* impl Add<&SaturatingU16> for SaturatingU16 *)
Add_ref_SaturatingU16(self, r) ==
    SaturatingU16(saturating_add(self.value, r.value))

(* impl Add<SaturatingU16> for SaturatingU16 *)
Add_SaturatingU16(self, r) ==
    SaturatingU16(saturating_add(self.value, r.value))

(* A SaturatingU16 made from a u16, and a u16 beside it. *)
InitSaturating ==
    /\ NewStore
    /\ NoActor
    /\ NoParse
    /\ NoHttp
    /\ NoSum
    /\ lhs \in {From_u16(a) : a \in U16Inputs}
    /\ rhs \in U16Inputs
    /\ out = NoRet

(* One operation on the operands; out keeps which and what it gave. *)
Apply(op, result) ==
    /\ out' = [op |-> op, v |-> result]
    /\ UNCHANGED <<lhs, rhs>>
    /\ UNCHANGED outsideSaturating

NextSaturating ==
    \/ Apply("add", Add_SaturatingU16(lhs, From_u16(rhs)))
    \/ Apply("add_ref", Add_ref_SaturatingU16(lhs, From_u16(rhs)))
    \/ Apply("add_u16", Add_u16(lhs, rhs))
    \/ Apply("from_u16", From_u16(rhs))
    \/ Apply("from_ref_u16", From_ref_u16(rhs))
    \/ rhs <= MaxU8 /\ Apply("from_u8", From_u8(rhs))
    \/ rhs <= MaxU8 /\ Apply("from_ref_u8", From_ref_u8(rhs))
    \/ Apply("eq_u16", PartialEq_u16(lhs, rhs))
    \/ Apply("partial_cmp_u16", PartialOrd_u16(lhs, rhs))
    \/ Apply("eq", PartialEq_SaturatingU16(lhs, From_u16(rhs)))

SpecSaturating == InitSaturating /\ [][NextSaturating]_vars

----------------------------------------------------------------------------
(* Properties of SaturatingU16 *)

\* C27: with a the value held by the left operand and b the right operand,
\* a + b gives min(a + b, 65535) whether b comes as a SaturatingU16, as a
\* &SaturatingU16 or as a u16 (never a value past 65535 and never a wrapped
\* one); a SaturatingU16 made from a u16 or a u8 holds that value; ==
\* against a u16 or a SaturatingU16 and partial_cmp against a u16 compare
\* the held value.
C27_SaturatingArithmetic ==
    out # NoRet =>
        LET a == lhs.value
            b == rhs
            least == IF a + b < 65535 THEN a + b ELSE 65535
        IN  /\ out.op \in {"add", "add_ref"} => out.v = [value |-> least]
            /\ out.op = "add_u16" => out.v = least
            /\ out.op \in {"from_u16", "from_ref_u16", "from_u8",
                           "from_ref_u8"} => out.v.value = b
            /\ out.op \in {"eq_u16", "eq"} => out.v = (a = b)
            /\ out.op = "partial_cmp_u16" =>
                   /\ out.v = Some("Less") <=> a < b
                   /\ out.v = Some("Equal") <=> a = b
                   /\ out.v = Some("Greater") <=> a > b

\* Two operands below 65535 whose sum is above it were added, and the
\* result holds 65535.
C27_Witness ==
    /\ out # NoRet
    /\ out.op = "add"
    /\ lhs.value < 65535
    /\ rhs < 65535
    /\ lhs.value + rhs > 65535
    /\ out.v.value = 65535

====
